---- MODULE Spec2Model ----
(***************************************************************************)
(* Model of resize_data.py: the per-image transform resize_image, the      *)
(* directory walker resize_dataset and the command-line entry point.       *)
(*                                                                         *)
(* Specifications:                                                         *)
(*   SpecSize    the size computation of resize_image (lines 16-24) as a   *)
(*               pure function of the image size and the two bounds;       *)
(*   SpecFormat  the format / extension / destination-name choice of       *)
(*               resize_image (lines 10, 30-40) as a pure function;        *)
(*   Spec        the whole program: argument check, collection of the      *)
(*               image paths, and the loop that transforms each of them.   *)
(***************************************************************************)
EXTENDS Integers, Sequences, FiniteSets, TLC

VARIABLES
    pc,               \* control point of the program
    max_size,         \* None or <<n>>
    min_size,         \* None or <<n>>
    keep_format,      \* BOOLEAN
    input_dir,        \* path of the input root
    output_dir,       \* path of the output root
    files,            \* the regular files of the file system: path -> content
    dirs,             \* the directories of the file system: set of paths
    all_image_paths,  \* the list resize_dataset collects
    idx,              \* 1-based position of the loop of resize_dataset
    calls,            \* history: the invocations of resize_image, in order
    written,          \* history: the paths resize_image saved to, in order
    failedAt,         \* history: position whose iteration raised, 0 if none
    files0,           \* history: the regular files when the program started
    img,              \* the image resize_image has open: [width, height, format]
    ret               \* what resize_image computed for it

vars == <<pc, max_size, min_size, keep_format, input_dir, output_dir, files, dirs,
          all_image_paths, idx, calls, written, failedAt, files0, img, ret>>

(***************************************************************************)
(* Bounds of the model.                                                    *)
(***************************************************************************)
MaxDim == 12      \* image widths and heights are 1..MaxDim in SpecSize
MaxSize == 15     \* --max_size / --min_size are 0..MaxSize in SpecSize
MaxFiles == 2     \* at most this many regular files exist at start in Spec

(***************************************************************************)
(* Python values.                                                          *)
(***************************************************************************)
None == <<>>
Some(n) == <<n>>
Val(o) == o[1]

\* Python truth value of an Optional[int]: None and 0 are false.
Truthy(o) == o # None /\ Val(o) # 0

Max2(a, b) == IF a >= b THEN a ELSE b
Min2(a, b) == IF a <= b THEN a ELSE b

(***************************************************************************)
(* IEEE-754 binary64 arithmetic, as far as lines 17, 19 and 23 use it:     *)
(* a quotient of two small integers, then the product of a small integer   *)
(* with that quotient, truncated by int().  A double is kept as the exact  *)
(* fraction it was rounded from; its rounding error is computed with       *)
(* modular arithmetic so that no 53-bit number is ever needed.             *)
(***************************************************************************)
MantBits == 52    \* fraction bits of a binary64 significand

RECURSIVE Pow2(_)
Pow2(n) == IF n <= 0 THEN 1 ELSE 2 * Pow2(n - 1)

SquareMod(x, n) == (x * x) % n

\* 2^k mod n, by repeated squaring.
RECURSIVE Pow2Mod(_, _)
Pow2Mod(k, n) ==
    IF k <= 0 THEN 1 % n
    ELSE IF k % 2 = 0 THEN SquareMod(Pow2Mod(k \div 2, n), n)
    ELSE (2 * SquareMod(Pow2Mod(k \div 2, n), n)) % n

RECURSIVE ExpUp(_, _, _)
ExpUp(a, b, e) == IF a >= b * Pow2(e + 1) THEN ExpUp(a, b, e + 1) ELSE e

RECURSIVE ExpDown(_, _, _)
ExpDown(a, b, s) == IF a * Pow2(s) < b THEN ExpDown(a, b, s + 1) ELSE 0 - s

\* floor(log2(a / b)) for integers a, b >= 1: the binary exponent of a / b.
Exponent(a, b) == IF a >= b THEN ExpUp(a, b, 0) ELSE ExpDown(a, b, 1)

\* The double a / b of two integers, a >= 0, b >= 1 (true division).
Div(a, b) == [num |-> a, den |-> b]

\* x < y for two doubles made by Div (rounding is monotone, and distinct
\* quotients of integers this small never round to the same double).
FloatLess(x, y) == x.num * y.den < y.num * x.den

\* Python min(x, y) and max(x, y): the first argument unless the second wins.
FloatMin(x, y) == IF FloatLess(y, x) THEN y ELSE x
FloatMax(x, y) == IF FloatLess(x, y) THEN y ELSE x

\* With k = MantBits - Exponent(num, den), the significand of num / den is
\* m = round-half-even(num * 2^k / den).  RoundErr is den * m - num * 2^k:
\* negative when the quotient was rounded down, positive when rounded up.
RoundErr(num, den) ==
    LET k  == MantBits - Exponent(num, den)
        r  == (num * Pow2Mod(k, den)) % den
        r2 == (num * Pow2Mod(k, 2 * den)) % (2 * den)
    IN  IF r = 0 THEN 0
        ELSE IF 2 * r < den THEN 0 - r
        ELSE IF 2 * r > den THEN den - r
        ELSE IF r2 < den THEN 0 - r ELSE den - r

\* int(d * x) for an integer d >= 1 and a double x = Div(num, den).
\* The exact product is d*num/den + d*RoundErr/(den * 2^k).  When den does
\* not divide d*num the perturbation is far too small to reach an integer.
\* When it does, the product lies just below the integer t if the quotient
\* was rounded down, and the multiplication rounds it back up to t only if
\* it is within half a unit in the last place of t.
IntMul(d, x) ==
    LET n == d * x.num
        t == n \div x.den
    IN  IF n % x.den # 0 \/ t = 0 THEN t
        ELSE LET err == RoundErr(x.num, x.den)
                 e   == Exponent(x.num, x.den)
                 f   == Exponent(t, 1)
                 lim == IF t = Pow2(f) THEN x.den * Pow2(f - e)
                                       ELSE x.den * Pow2(f - e + 1)
             IN  IF err >= 0 \/ 4 * d * (0 - err) <= lim THEN t ELSE t - 1

(***************************************************************************)
(* resize_image, lines 16-24: the new size.                                *)
(***************************************************************************)
\* Lines 20-21: neither bound is given, resize_image raises ValueError.
NoBound(maxs, mins) == maxs = None /\ mins = None

\* Lines 16-19: the ratio, when a bound is given; max_size is tested first.
Ratio(w, h, maxs, mins) ==
    IF maxs # None THEN FloatMin(Div(Val(maxs), w), Div(Val(maxs), h))
    ELSE FloatMax(Div(Val(mins), w), Div(Val(mins), h))

\* Line 23: new_size = (int(img.width * ratio), int(img.height * ratio)).
NewSize(w, h, ratio) == <<IntMul(w, ratio), IntMul(h, ratio)>>

\* Line 24: Image.resize refuses a size with a dimension below 1.
ResizeRaises(size) == size[1] < 1 \/ size[2] < 1

(***************************************************************************)
(* Names and paths.  A file name is a sequence of tokens, each either the  *)
(* extension separator "." or a run of characters without a dot; a path is *)
(* a sequence of names.  The tokens are chosen so that a name ends with    *)
(* one of the suffixes of line 59 exactly when its last token, lowered, is *)
(* that suffix.                                                            *)
(***************************************************************************)
Dot == "."

\* str.lower() on a token.
Lower(tok) == CASE tok = "JPG" -> "jpg" [] tok = "PNG" -> "png" [] OTHER -> tok

\* Line 59: file.lower().endswith(('png', 'jpg', 'jpeg', 'bmp', 'gif')).
ImageSuffixes == {"png", "jpg", "jpeg", "bmp", "gif"}
IsImageName(name) == Len(name) > 0 /\ Lower(name[Len(name)]) \in ImageSuffixes

\* Index of the last "." of a name, 0 if it has none (str.rfind).
LastDot(name) ==
    LET D == {i \in 1..Len(name) : name[i] = Dot}
    IN  IF D = {} THEN 0 ELSE CHOOSE i \in D : \A j \in D : j <= i

\* os.path.splitext on a name: <<root, ext>>.  The extension starts at the
\* last dot, unless only dots precede that dot (a leading-dot name has none).
SplitExtName(name) ==
    LET d == LastDot(name)
    IN  IF d > 0 /\ \E j \in 1..(d - 1) : name[j] # Dot
        THEN <<SubSeq(name, 1, d - 1), SubSeq(name, d, Len(name))>>
        ELSE <<name, <<>>>>

Front(p) == SubSeq(p, 1, Len(p) - 1)
Last(p) == p[Len(p)]

\* os.path.splitext on a path: only the last name is split.
SplitExt(p) == <<Append(Front(p), SplitExtName(Last(p))[1]), SplitExtName(Last(p))[2]>>

\* os.path.dirname and os.path.join.
Dirname(p) == Front(p)
Join(d, rel) == d \o rel

IsPrefix(d, p) == Len(d) <= Len(p) /\ SubSeq(p, 1, Len(d)) = d

\* os.path.relpath(p, d) for a path p below d.
Relpath(p, d) == SubSeq(p, Len(d) + 1, Len(p))

(***************************************************************************)
(* resize_image, lines 10 and 30-40: format, extension, final path.        *)
(***************************************************************************)
NoFormat == ""

\* str.upper() on a format tag.
Upper(fmt) == CASE fmt = "png" -> "PNG" [] fmt = "jpeg" -> "JPEG" [] OTHER -> fmt

\* Line 10: img.format.upper() if img.format else None.
OriginalFormat(fmt) == IF fmt # NoFormat THEN Upper(fmt) ELSE NoFormat

\* Line 30: valid_formats.
ValidFormats == {"JPEG", "PNG", "BMP", "GIF"}
valid_formats(fmt) ==
    CASE fmt = "JPEG" -> "jpg" [] fmt = "PNG" -> "png"
      [] fmt = "BMP" -> "bmp" [] fmt = "GIF" -> "gif"

\* SaveTarget with the keep_format test dropped.
SaveTargetIgnoringKeep(keep, original_format) ==
    IF original_format \in ValidFormats
    THEN [extension |-> valid_formats(original_format), save_format |-> original_format]
    ELSE [extension |-> "png", save_format |-> "PNG"]

\* Lines 33-38: the extension and the format to save in.
SaveTarget(keep, original_format) ==
    IF keep /\ original_format \in ValidFormats
    THEN [extension |-> valid_formats(original_format), save_format |-> original_format]
    ELSE [extension |-> "png", save_format |-> "PNG"]

\* Line 40: os.path.splitext(output_path)[0] + f'.{extension}'.
FinalPath(output_path, extension) ==
    LET root == SplitExt(output_path)[1]
    IN  Append(Front(root), Last(root) \o <<Dot, extension>>)

\* Lines 42-46: the encoder parameters.
SaveParams(extension) ==
    IF extension = "png" THEN [optimize |-> TRUE, compress_level |-> 9, quality |-> 0]
    ELSE IF extension = "jpg" THEN [optimize |-> FALSE, compress_level |-> 0, quality |-> 95]
    ELSE [optimize |-> FALSE, compress_level |-> 0, quality |-> 0]

(***************************************************************************)
(* The two pure parts of resize_image, each applied to inputs drawn by     *)
(* Init.                                                                   *)
(***************************************************************************)
Sizes == {None} \cup {Some(n) : n \in 0..MaxSize}

\* Format tags Image.open may report; "" stands for a missing tag and the
\* lower-case tag for a plugin that registers one.
Formats == {"JPEG", "PNG", "BMP", "GIF", "TIFF", "MPO", "png", NoFormat}

\* Destination names the walker may hand over.
DestNames == { <<"c", Dot, "jpg">>, <<"c", Dot, "png">>, <<"c", Dot, "JPG">>,
               <<"c", Dot, "b", Dot, "gif">>, <<"c", "png">>, <<Dot, "png">>,
               <<Dot, Dot, "bmp">>, <<"c", Dot, Dot, "jpeg">> }

NoImage == [width |-> 0, height |-> 0, format |-> NoFormat]
NoRet == [status |-> "none"]

Idle == /\ input_dir = <<>> /\ output_dir = <<>>
        /\ files = <<>> /\ dirs = {} /\ files0 = <<>>
        /\ all_image_paths = <<>> /\ idx = 0
        /\ calls = <<>> /\ written = <<>> /\ failedAt = 0

InitSize ==
    /\ pc = "size"
    /\ max_size \in Sizes
    /\ min_size \in Sizes
    /\ keep_format = FALSE
    /\ img \in [width : 1..MaxDim, height : 1..MaxDim, format : {"PNG"}]
    /\ ret = NoRet
    /\ Idle

\* Lines 16-24 of resize_image.
ComputeSize ==
    /\ pc = "size"
    /\ pc' = "sized"
    /\ ret' = IF NoBound(max_size, min_size) THEN [status |-> "ValueError"]
              ELSE LET new_size == NewSize(img.width, img.height,
                                           Ratio(img.width, img.height, max_size, min_size))
                   IN  [status |-> IF ResizeRaises(new_size) THEN "ResizeError" ELSE "ok",
                        new_size |-> new_size]
    /\ UNCHANGED <<max_size, min_size, keep_format, input_dir, output_dir, files, dirs,
                   all_image_paths, idx, calls, written, failedAt, files0, img>>

NextSize == ComputeSize
SpecSize == InitSize /\ [][NextSize]_vars

InitFormat ==
    /\ pc = "format"
    /\ max_size = None
    /\ min_size = None
    /\ keep_format \in BOOLEAN
    /\ img \in [width : {1}, height : {1}, format : Formats]
    /\ ret \in {[status |-> "none", output_path |-> <<n>>] : n \in DestNames}
    /\ Idle

\* Lines 10 and 30-46 of resize_image.
ChooseFormat ==
    /\ pc = "format"
    /\ pc' = "formatted"
    /\ LET original_format == OriginalFormat(img.format)
           t == SaveTarget(keep_format, original_format)
       IN  ret' = [status |-> "ok",
                   given |-> ret.output_path,
                   original_format |-> original_format,
                   extension |-> t.extension,
                   save_format |-> t.save_format,
                   output_path |-> FinalPath(ret.output_path, t.extension),
                   save_params |-> SaveParams(t.extension)]
    /\ UNCHANGED <<max_size, min_size, keep_format, input_dir, output_dir, files, dirs,
                   all_image_paths, idx, calls, written, failedAt, files0, img>>

NextFormat == ChooseFormat
SpecFormat == InitFormat /\ [][NextFormat]_vars

(***************************************************************************)
(* The file system.                                                        *)
(***************************************************************************)
\* os.path.exists: a directory or a regular file.
Exists(p, fs, ds) == p \in ds \/ p \in DOMAIN fs

Prefixes(p) == {SubSeq(p, 1, k) : k \in 1..Len(p)}

\* os.makedirs(p) raises when a regular file is in the way.
MakedirsRaises(p, fs) == \E q \in Prefixes(p) : q \in DOMAIN fs

\* Lines 52-53 and 68-69: if not os.path.exists(d): os.makedirs(d).
EnsureDir(d, fs, ds) == IF Exists(d, fs, ds) THEN ds ELSE ds \cup Prefixes(d)

Range(s) == {s[i] : i \in DOMAIN s}

Perms(S) == {s \in [1..Cardinality(S) -> S] : \A i, j \in DOMAIN s : i # j => s[i] # s[j]}

RECURSIVE ConcatChoices(_)
ConcatChoices(ss) ==
    IF Len(ss) = 0 THEN {<<>>}
    ELSE {a \o b : a \in Head(ss), b \in ConcatChoices(Tail(ss))}

\* Lines 57-61: the lists os.walk(top) can produce, top-down: the image
\* files of a directory in any listing order, then each sub-directory in any
\* listing order.
RECURSIVE Walk(_, _, _)
Walk(top, fs, ds) ==
    LET here == {p \in DOMAIN fs : Front(p) = top /\ IsImageName(Last(p))}
        subs == {d \in ds : Len(d) = Len(top) + 1 /\ Front(d) = top}
    IN  UNION { {f \o r : f \in Perms(here),
                          r \in ConcatChoices([i \in 1..Len(o) |-> Walk(o[i], fs, ds)])}
                : o \in Perms(subs) }

\* OutputPath that keeps only the file name, flattening the tree.
OutputPathFlat(input_path, indir, outdir) == Join(outdir, <<Last(input_path)>>)

\* Line 65: os.path.join(output_dir, os.path.relpath(input_path, input_dir)).
OutputPath(input_path, indir, outdir) == Join(outdir, Relpath(input_path, indir))

(***************************************************************************)
(* The inputs of the whole program.                                        *)
(***************************************************************************)
SizeArg == 4      \* the non-zero value --max_size / --min_size take in Spec

CliSizes == {None, Some(0), Some(SizeArg)}

In == << <<"in">> >>
OutputRoots == { << <<"out">> >>, In, << <<"in">>, <<"out">> >> }

CandidatePaths ==
    { << <<"in">>, <<"c", Dot, "jpg">> >>,
      << <<"in">>, <<"c", Dot, "png">> >>,
      << <<"in">>, <<"c", "png">> >>,
      << <<"in">>, <<Dot, "png">> >>,
      << <<"in">>, <<"c", Dot, "txt">> >>,
      << <<"in">>, <<"a">>, <<"c", Dot, "JPG">> >>,
      << <<"in">>, <<"out">>, <<"c", Dot, "png">> >>,
      << <<"out">>, <<"a">> >> }

Contents ==
    { [kind |-> "image", format |-> "JPEG", width |-> 4, height |-> 2],
      [kind |-> "image", format |-> "PNG", width |-> 5, height |-> 1],
      [kind |-> "garbage", format |-> NoFormat, width |-> 0, height |-> 0] }

Truncated == [kind |-> "garbage", format |-> NoFormat, width |-> 0, height |-> 0]

Init ==
    /\ pc = "start"
    /\ max_size \in CliSizes
    /\ min_size \in CliSizes
    /\ keep_format \in BOOLEAN
    /\ input_dir = In
    /\ output_dir \in OutputRoots
    /\ \E F \in SUBSET CandidatePaths :
          /\ Cardinality(F) <= MaxFiles
          /\ files \in [F -> Contents]
    /\ \E outExists \in BOOLEAN :
          dirs = UNION {Prefixes(Front(f)) : f \in DOMAIN files}
                   \cup Prefixes(input_dir)
                   \cup (IF outExists THEN Prefixes(output_dir) ELSE {})
    /\ files0 = files
    /\ all_image_paths = <<>>
    /\ idx = 0
    /\ calls = <<>>
    /\ written = <<>>
    /\ failedAt = 0
    /\ img = NoImage
    /\ ret = NoRet

(***************************************************************************)
(* __main__, lines 85-94.                                                  *)
(***************************************************************************)
Main ==
    /\ pc = "start"
    /\ pc' = IF Truthy(max_size) /\ Truthy(min_size) THEN "usage"
             ELSE IF ~Truthy(max_size) /\ ~Truthy(min_size) THEN "usage"
             ELSE "resize_dataset"
    /\ UNCHANGED <<max_size, min_size, keep_format, input_dir, output_dir, files, dirs,
                   all_image_paths, idx, calls, written, failedAt, files0, img, ret>>

(***************************************************************************)
(* resize_dataset, lines 52-61: the output root and the list of paths.     *)
(* env is what the operating system does to a makedirs call.               *)
(***************************************************************************)
Collect ==
    /\ pc = "resize_dataset"
    /\ \E env \in {"ok", "OSError"} :
          LET need == ~Exists(output_dir, files, dirs)
              raises == need /\ (env = "OSError" \/ MakedirsRaises(output_dir, files))
              dirs1 == EnsureDir(output_dir, files, dirs)
          IN  IF raises
              THEN /\ pc' = "error"
                   /\ UNCHANGED <<dirs, all_image_paths, idx>>
              ELSE /\ env = "ok"
                   /\ dirs' = dirs1
                   /\ \E order \in Walk(input_dir, files, dirs1) :
                         /\ all_image_paths' = order
                         /\ pc' = IF Len(order) = 0 THEN "done" ELSE "loop"
                   /\ idx' = 1
    /\ UNCHANGED <<max_size, min_size, keep_format, input_dir, output_dir, files,
                   calls, written, failedAt, files0, img, ret>>

(***************************************************************************)
(* resize_dataset, lines 64-71: one iteration of the loop, resize_image    *)
(* (lines 7-48) included.  An exception is caught nowhere, so it ends the  *)
(* program.                                                                *)
(***************************************************************************)
\* NextPc of a loop that swallows the exception and goes on.
NextPcSkipping(ok, i, n) == IF i = n THEN "done" ELSE "loop"

\* NextPc of a loop that returns after its first iteration.
NextPcReturning(ok, i, n) == IF ~ok THEN "error" ELSE "done"

\* Where control goes after an iteration at position i of n.
NextPc(ok, i, n) == IF ~ok THEN "error" ELSE IF i = n THEN "done" ELSE "loop"

\* resize_image on the open image c, to be saved below output_path; env is
\* what the operating system does to the save.  The result: the status, the
\* final path, and the content written there.
ResizeImage(c, output_path, env, ds) ==
    IF c.kind # "image" THEN [status |-> "UnidentifiedImageError"]
    ELSE IF NoBound(max_size, min_size) THEN [status |-> "ValueError"]
    ELSE
      LET new_size == NewSize(c.width, c.height,
                              Ratio(c.width, c.height, max_size, min_size))
          t == SaveTarget(keep_format, OriginalFormat(c.format))
          final == FinalPath(output_path, t.extension)
      IN  IF ResizeRaises(new_size) THEN [status |-> "ResizeError"]
          ELSE IF Dirname(final) \notin ds \/ final \in ds \/ env = "OSError"
               THEN [status |-> "OSError", path |-> final]
          ELSE IF env = "truncated"
               THEN [status |-> "truncated", path |-> final]
          ELSE [status |-> "ok", path |-> final,
                content |-> [kind |-> "image", format |-> t.save_format,
                             width |-> new_size[1], height |-> new_size[2]]]

ProcessNext ==
    /\ pc = "loop"
    /\ \E env \in {"ok", "makedirs", "OSError", "truncated"} :
          LET input_path == all_image_paths[idx]
              output_path == OutputPath(input_path, input_dir, output_dir)
              output_subdir == Dirname(output_path)
              need == ~Exists(output_subdir, files, dirs)
              mkRaises == need /\ (env = "makedirs" \/ MakedirsRaises(output_subdir, files))
              dirs1 == EnsureDir(output_subdir, files, dirs)
          IN  IF mkRaises
              THEN /\ pc' = NextPc(FALSE, idx, Len(all_image_paths))
                   /\ failedAt' = idx
                   /\ UNCHANGED <<files, dirs, idx, calls, written>>
              ELSE
                \E r \in {ResizeImage(files[input_path], output_path, env, dirs1)} :
                LET ok == r.status = "ok"
                IN  /\ env # "makedirs"
                    /\ dirs' = dirs1
                    /\ calls' = Append(calls, [input_path |-> input_path,
                                               output_path |-> output_path,
                                               parent |-> output_subdir \in dirs1])
                    /\ pc' = NextPc(ok, idx, Len(all_image_paths))
                    /\ idx' = IF ok THEN idx + 1 ELSE idx
                    /\ failedAt' = IF ok THEN failedAt ELSE idx
                    /\ written' = IF ok THEN Append(written, r.path) ELSE written
                    /\ files' = IF ok
                                THEN [p \in DOMAIN files \cup {r.path} |->
                                        IF p = r.path THEN r.content ELSE files[p]]
                                ELSE IF r.status = "truncated" /\ r.path \in DOMAIN files
                                THEN [files EXCEPT ![r.path] = Truncated]
                                ELSE files
    /\ UNCHANGED <<max_size, min_size, keep_format, input_dir, output_dir,
                   all_image_paths, files0, img, ret>>

Next == Main \/ Collect \/ ProcessNext

Spec == Init /\ [][Next]_vars

(***************************************************************************)
(* Properties.                                                             *)
(***************************************************************************)
Sized(bound) == /\ pc = "sized"
                /\ bound # None
                /\ Val(bound) >= 1
OutW == ret.new_size[1]
OutH == ret.new_size[2]

\* C1: with max_size = M >= 1 and any image of width, height >= 1, the new
\* size has its larger dimension equal to M and both dimensions at most M.
C1_MaxEdge ==
    Sized(max_size) =>
        /\ Max2(OutW, OutH) = Val(max_size)
        /\ OutW <= Val(max_size)
        /\ OutH <= Val(max_size)

\* C2: with min_size = m >= 1, max_size unset and any image of width,
\* height >= 1, the new size has its smaller dimension equal to m and both
\* dimensions at least m.
C2_MinEdge ==
    (Sized(min_size) /\ max_size = None) =>
        /\ Min2(OutW, OutH) = Val(min_size)
        /\ OutW >= Val(min_size)
        /\ OutH >= Val(min_size)

\* C10: with a bound >= 1 (max_size, or min_size when max_size is unset) and
\* any image of width, height >= 1, both new dimensions are at least 1.
C10_ValidDimensions ==
    (Sized(max_size) \/ (Sized(min_size) /\ max_size = None)) =>
        /\ OutW >= 1
        /\ OutH >= 1

CanonicalExtension == [f \in {"JPEG", "PNG", "BMP", "GIF"} |->
                         CASE f = "JPEG" -> "jpg" [] f = "PNG" -> "png"
                           [] f = "BMP" -> "bmp" [] f = "GIF" -> "gif"]

Discovered ==
    {p \in DOMAIN files0 : /\ IsPrefix(input_dir, p)
                           /\ Len(p) > Len(input_dir)
                           /\ Lower(Last(Last(p))) \in {"png", "jpg", "jpeg", "bmp", "gif"}}

\* q is below the output root where p is below the input root, up to the
\* extension.
Mirrors(p, q) ==
    /\ IsPrefix(output_dir, q)
    /\ SplitExt(Relpath(q, output_dir))[1] = SplitExt(Relpath(p, input_dir))[1]

\* C4: after a run that completes, every discovered source has an output
\* file at its own relative path below the output root, up to the extension,
\* and every file the run wrote is such an output.
C4_TreeMirroring ==
    pc = "done" =>
        /\ \A p \in Discovered : \E q \in DOMAIN files : q \in Range(written) /\ Mirrors(p, q)
        /\ \A q \in Range(written) : \E p \in Discovered : Mirrors(p, q)
        /\ \A q \in DOMAIN files :
              \/ q \in Range(written)
              \/ q \in DOMAIN files0 /\ files[q] = files0[q]

\* C4 witness: a completed run that wrote the output of a source in a
\* sub-directory.
C4_Witness ==
    /\ pc = "done"
    /\ \E p \in Discovered, q \in Range(written) :
          /\ Len(p) = Len(input_dir) + 2
          /\ Len(q) = Len(output_dir) + 2
          /\ Mirrors(p, q)

\* C5: after a run that completes, the number of distinct output files
\* equals the number of discovered source files.
C5_OneToOne ==
    pc = "done" => Cardinality(Range(written)) = Cardinality(Discovered)

\* C6: whenever resize_dataset is called, exactly one of max_size and
\* min_size is set.
C6_ExactlyOneBound ==
    pc \in {"resize_dataset", "loop", "done", "error"} =>
        (max_size = None) # (min_size = None)

\* C7: after a run that completes, every file that was below the input root
\* when the program started still has its original content.
C7_SourcesUntouched ==
    pc = "done" =>
        \A p \in DOMAIN files0 :
            IsPrefix(input_dir, p) => p \in DOMAIN files /\ files[p] = files0[p]

NoDuplicates(s) == \A i, j \in DOMAIN s : i # j => s[i] # s[j]

C9_Invariant ==
    /\ calls # <<>> => pc \in {"loop", "done", "error"}
    /\ pc \in {"loop", "done", "error"} /\ (pc = "error" => idx > 0) =>
          /\ Range(all_image_paths) = Discovered
          /\ NoDuplicates(all_image_paths)
    /\ \A j \in DOMAIN calls : calls[j].input_path = all_image_paths[j]
    /\ pc = "loop" => Len(calls) = idx - 1 /\ idx <= Len(all_image_paths)
    /\ pc = "done" =>
          /\ Len(calls) = Len(all_image_paths)
          /\ \A j \in DOMAIN calls : calls[j].parent

Returned == pc \in {"usage", "done", "error"}

\* An upper bound on the steps the program still takes.
StepsLeft ==
    CASE pc = "start" -> Cardinality(DOMAIN files0) + 3
      [] pc = "resize_dataset" -> Cardinality(DOMAIN files0) + 2
      [] pc = "loop" -> Len(all_image_paths) - idx + 1
      [] OTHER -> 0

\* The guard of the action that runs at each control point short of the end.
CanStep ==
    \/ pc \in {"start", "resize_dataset"}
    \/ /\ pc = "loop"
       /\ idx \in DOMAIN all_image_paths
       /\ all_image_paths[idx] \in DOMAIN files

\* C9: the list of paths is complete before the first transform and holds
\* exactly the image files that were below the input root at the start; the
\* transformer is invoked for the collected paths in order, once each and
\* for nothing else; in a run that completes every invocation found the
\* parent directory of its output path; and the program returns: until it
\* has, a step is possible, and every step brings the end nearer.
C9_Sequential ==
    /\ [](C9_Invariant /\ (Returned \/ CanStep))
    /\ [][StepsLeft' < StepsLeft]_vars

\* C9 witness: a completed run of two files with the output root inside the
\* input root, the first output having landed below the input root.
C9_Witness ==
    /\ pc = "done"
    /\ Len(calls) = 2
    /\ output_dir # input_dir
    /\ IsPrefix(input_dir, output_dir)
    /\ \E q \in Range(written) : q \notin DOMAIN files0

====
